---- MODULE Spec2Model ----
(***************************************************************************)
(* A model of the demo applications of streamlit_llamaindex_workflows:     *)
(*   - the chat front ends (Wikipedia RAG, file-upload RAG, text-to-SQL)   *)
(*     and the workflows they run, step by step;                           *)
(*   - the admission application portal and its applications files.        *)
(* Each browser session runs the Streamlit script in a thread of its own;  *)
(* st.cache_resource and the file system are shared by all sessions.       *)
(***************************************************************************)
EXTENDS Integers, Sequences, FiniteSets, TLC

\* ------------------------------------------------------------------ bounds
Sessions == {1, 2}
Prompts == {"q1", "q2"}
\* prompts submitted in all
MaxTurns == 2
\* applications submitted in all
MaxSubmits == 2
\* the numbers of recommendation letters a form may carry
LetterCounts == {0, 1, 2}

\* ------------------------------------------------------------- chat state
VARIABLES
    app,        \* which front end is deployed: "wiki", "kb" or "sql"
    agentCache, \* st.cache_resource of get_agent: "empty", "wf" or "None"
    st,         \* st.session_state of each session
    wf,         \* the workflow run of each session's current turn
    ctxStore,   \* the Context stores of the runs (key "query")
    widget,     \* kb: the files held by each session's file_uploader
    dataDir     \* kb: the names of the files in the shared directory "data"

chatVars == <<app, agentCache, st, wf, ctxStore, widget, dataDir>>

\* -------------------------------------------------------- admission state
VARIABLES
    defaultFile, \* applications_data_default.json: "missing" or a list of records
    dataFile,    \* applications_data.json: "missing" or the list last saved
    apps,        \* st.session_state.applications of each session
    sel,         \* session_state['processing_app'] / ['viewing_app'] (0: not set)
    fs,          \* the other files the portal and its workflow write or read
    submitted,   \* the number of applications submitted so far, by all sessions
    adm          \* a run of AdmissionWorkflow followed step by step

admVars == <<defaultFile, dataFile, apps, sel, fs, submitted, adm>>
vars == <<chatVars, admVars>>

Front == {"wiki", "kb", "sql"}
IsRAG(a) == a \in {"wiki", "kb"}

\* kb_workflow/streamlit_app.py: "Max 5MB per file."
MaxUploadBytes == 5 * 1024 * 1024
Files ==
    { [name |-> "a.txt",  size |-> MaxUploadBytes],
      [name |-> "c.docx", size |-> MaxUploadBytes + 1] }
\* what a session may hold in its file_uploader: nothing, or one of the files
UploadSets == {{}} \cup {{f} : f \in Files}

\* A size test that rejects a file of exactly the maximum too.
TooBigInclusive(f) == f.size >= 5 * 1024 * 1024

\* `if fu.size > 5 * 1024 * 1024: st.error(...) else: write the file`
TooBig(f) == f.size > 5 * 1024 * 1024
Saved(F) == {f.name : f \in {g \in F : ~TooBig(g)}}

\* The greeting that heads the history after the first script run. The kb app
\* sets one greeting and replaces it in the same run when it sets the agent.
Greeting(a) ==
    IF a = "kb"
    THEN [role |-> "assistant", content |-> "Hello! Upload files or ask me anything."]
    ELSE IF a = "sql"
    THEN [role |-> "assistant",
          content |-> "Hello! I'm your SQL database agent. Ask me questions about the AdventureWorks database and I'll convert them to SQL queries and provide answers."]
    ELSE [role |-> "assistant",
          content |-> "Hello! I'm your RAG agent. Ask me anything about your documents."]

UserMsg(p) == [role |-> "user", content |-> p]
AnswerMsg(text) == [role |-> "assistant", content |-> text]

\* f"Sorry, I encountered an error: {str(e)}"
ErrorPrefix == "Sorry, I encountered an error: "

\* An except branch that stores the exception text alone.
ErrorMsgBare(text) == [role |-> "assistant", content |-> text]

ErrorMsg(text) == [role |-> "assistant", content |-> ErrorPrefix \o text]

\* str(e) of the exceptions a handler may catch: a step raised, the run timed
\* out, reading the streamed response raised, the agent is None.
StepErrorText == "step failed"
TimeoutErrorText == "Operation timed out"
StreamErrorText == "stream failed"
NoAgentErrorText == "'NoneType' object has no attribute 'run'"
ErrorTexts == {StepErrorText, TimeoutErrorText, StreamErrorText, NoAgentErrorText}

\* ------------------------------------------------------------ workflow run
\* No SQL text (yet) and no reference; SQL texts are sequences of tokens.
NoText == <<"none">>
NoRef == [sql_query |-> NoText, sql_database_name |-> "none"]

\* The run has no token count of a SQL result (yet).
NotCounted == -1

NoRun ==
    [status |-> "idle", ev |-> "none", events |-> <<>>, log |-> <<>>,
     query |-> "none", dirname |-> "data", req |-> {}, docs |-> {}, reads |-> <<>>,
     stopBy |-> "none", out |-> "none", chunks |-> <<>>,
     nodes |-> {}, ranked |-> {},
     sql |-> NoText, ref |-> NoRef, err |-> "none",
     executed |-> NoText, tokens |-> NotCounted, llm |-> FALSE]

\* agent.run(query=prompt, dirname=..., streaming=True) / run(start_event=...):
\* a fresh run whose only event in flight is the StartEvent.
NewRun(p, F) ==
    [NoRun EXCEPT !.status = "active", !.ev = "StartEvent",
                  !.events = <<"StartEvent">>, !.query = p, !.req = F]

\* The event type each step's signature accepts.
Accepts(step) ==
    CASE step = "ingest" -> "StartEvent"
      [] step = "retrieve" -> "IngestEvent"
      [] step = "rerank" -> "RetrieverEvent"
      [] step = "synthesize" -> "RerankEvent"
      [] step = "generate_sql" -> "StartEvent"
      [] step = "execute_sql" -> "SQLEvent"

\* A step consumed its event and returned event e ("none" for `return None`).
Emit(r, step, e) ==
    [r EXCEPT !.log = Append(@, step),
              !.ev = IF e = "StopEvent" THEN "none" ELSE e,
              !.events = IF e = "none" THEN @ ELSE Append(@, e),
              !.status = IF e = "StopEvent" THEN "stopped" ELSE @,
              !.stopBy = IF e = "StopEvent" THEN step ELSE @]

\* A step consumed its event and raised: the run fails with the exception,
\* and the payloads of its events are gone with it.
Raise(r, step) ==
    [r EXCEPT !.log = Append(@, step), !.ev = "none", !.status = "failed",
              !.nodes = {}, !.ranked = {}]

Ready(s, step) == wf[s].status = "active" /\ wf[s].ev = Accepts(step)

\* One store shared by the runs of all sessions, as a Context kept on the
\* cached workflow object would be.
SharedCtx(s) == 1

\* Each run gets a Context of its own: the steps of session s's run use this store.
CtxOf(s) == s

CtxGet(s) == ctxStore[CtxOf(s)]


\* --------------------------------------------------------- RAG workflow steps
\* A workflow built with timeout=None: no run is ever timed out.
NoTimeout(a) == FALSE

\* get_workflow: RAGWorkflow(timeout=60, verbose=True). build_sql_workflow passes
\* no timeout to Workflow.__init__, whose default is a timeout too: a run of
\* any of the workflows may be cut short.
HasTimeout(a) == a \in Front

\* An ingest that ends the run when the search finds no page, instead of
\* returning None.
IngestWikiStop(r, pages) ==
    IF r.query = "none" THEN Emit(r, "ingest", "none")
    ELSE IF pages = "none" THEN Emit(r, "ingest", "StopEvent")
    ELSE IF pages = "raise" THEN Raise(r, "ingest")
    ELSE Emit(r, "ingest", "IngestEvent")

\* RAGWorkflow.ingest, Wikipedia variant: `if query is None: return None`,
\* `if not pages: return None`. A query is "none" when the start event has none.
\*   pages: "none" (the search found nothing), "ok", "raise" (search, load or embed raised)
IngestWiki(r, pages) ==
    IF r.query = "none" THEN Emit(r, "ingest", "none")
    ELSE IF pages = "none" THEN Emit(r, "ingest", "none")
    ELSE IF pages = "raise" THEN Raise(r, "ingest")
    ELSE Emit(r, "ingest", "IngestEvent")

\* RAGWorkflow.ingest, file-upload variant: reads every file of the directory.
\*   dir: the file names in "data" now; embed: "ok" or "raise"
IngestDir(r, dir, embed) ==
    IF r.dirname = "" THEN Emit(r, "ingest", "none")
    ELSE IF r.query \in {"none", ""} THEN Emit(r, "ingest", "none")
    ELSE IF dir = {} THEN Raise(r, "ingest")
    ELSE IF embed = "raise" THEN Raise([r EXCEPT !.docs = dir], "ingest")
    ELSE Emit([r EXCEPT !.docs = dir], "ingest", "IngestEvent")

\* Whether ingest reaches `await ctx.set("query", query)`.
IngestSetsQuery(a, r) ==
    IF a = "wiki" THEN r.query # "none"
    ELSE r.dirname # "" /\ r.query \notin {"none", ""}

Ingest(s) ==
    /\ IsRAG(app)
    /\ Ready(s, "ingest")
    /\ ctxStore' = IF IngestSetsQuery(app, wf[s])
                   THEN [ctxStore EXCEPT ![CtxOf(s)] = wf[s].query]
                   ELSE ctxStore
    /\ \E o \in {"none", "ok", "raise"} :
         wf' = [wf EXCEPT ![s] =
                  IF app = "wiki" THEN IngestWiki(@, o)
                  ELSE IngestDir(@, dataDir, IF o = "none" THEN "ok" ELSE o)]
    /\ UNCHANGED <<app, agentCache, st, widget, dataDir>>
    /\ UNCHANGED admVars

\* A step that reads the query from the context and then calls the model.
\*   q: what ctx.get("query") returned; o: "ok" or "raise"
ReadAndEmit(r, step, q, o, e) ==
    LET r1 == [r EXCEPT !.reads = Append(@, q)]
    IN  IF o = "raise" THEN Raise(r1, step) ELSE Emit(r1, step, e)

\* The number of nodes the index of the IngestEvent may hold; the nodes of an
\* index of n nodes are 1..n, numbered by their similarity to the query.
IndexSizes == {0, 2, 6}

Min(a, b) == IF a < b THEN a ELSE b

\* index.as_retriever(similarity_top_k=5), aretrieve(query): the k most
\* similar nodes of the index, all of them when it holds fewer.
TopK(n, k) == 1..Min(n, k)

\* A retrieve that ends the run itself, as the fallback that is commented out
\* in the file-upload variant would (`return StopEvent(result=...)`).
RetrieveStepFallback(r, q, o, n) ==
    IF q = "unset" THEN Emit([r EXCEPT !.reads = Append(@, q)], "retrieve", "none")
    ELSE ReadAndEmit(r, "retrieve", q, o, "StopEvent")

\* RAGWorkflow.retrieve: `if (query is None) or (index is None): return None`
\*   n: the number of nodes of ev.index
RetrieveStep(r, q, o, n) ==
    IF q = "unset" THEN Emit([r EXCEPT !.reads = Append(@, q)], "retrieve", "none")
    ELSE ReadAndEmit([r EXCEPT !.nodes = IF o = "raise" THEN @ ELSE TopK(n, 5)],
                     "retrieve", q, o, "RetrieverEvent")

Retrieve(s) ==
    /\ IsRAG(app)
    /\ Ready(s, "retrieve")
    /\ \E o \in {"ok", "raise"}, n \in IndexSizes :
         wf' = [wf EXCEPT ![s] = RetrieveStep(@, CtxGet(s), o, n)]
    /\ UNCHANGED <<app, agentCache, st, ctxStore, widget, dataDir>>
    /\ UNCHANGED admVars

\* The answers of the reranking model: the numbers of the nodes it chose
\* among those it was shown, the most relevant first.
Choices == {<<>>, <<2, 1>>, <<5, 4, 3, 1>>}

\* LLMRerank(top_n=3).postprocess_nodes(nodes): no node, no call of the model;
\* a chosen number that is not among the nodes raises; else the chosen nodes
\* in order of relevance, cut to the first top_n.
Postprocess(nodes, choices, top_n) ==
    IF nodes = {} THEN {}
    ELSE {choices[i] : i \in 1..Min(Len(choices), top_n)}

ChoicesValid(nodes, choices) ==
    nodes = {} \/ \A i \in DOMAIN choices : choices[i] \in nodes

\* A reranker without the cut to top_n.
RerankStepNoCut(r, q, o, choices) ==
    ReadAndEmit([r EXCEPT !.ranked = IF o = "raise" \/ ~ChoicesValid(r.nodes, choices)
                                     THEN @
                                     ELSE Postprocess(r.nodes, choices, Len(choices))],
                "rerank", q,
                IF ChoicesValid(r.nodes, choices) THEN o ELSE "raise",
                "RerankEvent")

\* RAGWorkflow.rerank: RerankEvent(nodes=ranker.postprocess_nodes(ev.nodes, ...))
\*   choices: the answer of the reranking model
RerankStep(r, q, o, choices) ==
    ReadAndEmit([r EXCEPT !.ranked = IF o = "raise" \/ ~ChoicesValid(r.nodes, choices)
                                     THEN @
                                     ELSE Postprocess(r.nodes, choices, 3)],
                "rerank", q,
                IF ChoicesValid(r.nodes, choices) THEN o ELSE "raise",
                "RerankEvent")

Rerank(s) ==
    /\ IsRAG(app)
    /\ Ready(s, "rerank")
    /\ \E o \in {"ok", "raise"}, choices \in Choices :
         wf' = [wf EXCEPT ![s] = RerankStep(@, CtxGet(s), o, choices)]
    /\ UNCHANGED <<app, agentCache, st, ctxStore, widget, dataDir>>
    /\ UNCHANGED admVars

\* The chunks a streaming response may deliver, in their order of arrival.
Streams == {<<>>, <<"a", "b">>, <<"b", "a">>}

\* RAGWorkflow.synthesize: the result is the streaming response of
\* CompactAndRefine(streaming=True) (wiki) or the text of the model's message (kb).
\*   chunks: what the streaming response will deliver
SynthesizeStep(r, a, q, o, chunks) ==
    ReadAndEmit([r EXCEPT !.out = IF o = "raise" THEN @
                                  ELSE IF a = "wiki" THEN "stream" ELSE "text",
                          !.chunks = IF o = "raise" \/ a # "wiki" THEN @ ELSE chunks,
                          !.nodes = {}, !.ranked = {}],
                "synthesize", q, o, "StopEvent")

Synthesize(s) ==
    /\ IsRAG(app)
    /\ Ready(s, "synthesize")
    /\ \E o \in {"ok", "raise"}, chunks \in Streams :
         wf' = [wf EXCEPT ![s] = SynthesizeStep(@, app, CtxGet(s), o, chunks)]
    /\ UNCHANGED <<app, agentCache, st, ctxStore, widget, dataDir>>
    /\ UNCHANGED admVars

\* The run's timeout expires before a StopEvent: run() raises WorkflowTimeoutError.
Timeout(s) ==
    /\ HasTimeout(app)
    /\ wf[s].status = "active"
    /\ wf' = [wf EXCEPT ![s].status = "timedout", ![s].ev = "none",
                         ![s].nodes = {}, ![s].ranked = {}]
    /\ UNCHANGED <<app, agentCache, st, ctxStore, widget, dataDir>>
    /\ UNCHANGED admVars

\* --------------------------------------------------------- SQL workflow steps
\* A SQL text is the sequence of its lexemes: words (maximal runs of word
\* characters, such as a table name), and the characters "[", "]", "." and " ".
\* The SQL texts generate_sql may come up with (what parse_response_to_sql
\* makes of the model's answer): nothing at all, a query that names none of
\* the three tables, one that names a table bare, one that names it bracketed.
SqlTexts ==
    { <<>>,
      <<"SELECT">>,
      <<"SELECT", " ", "Customer">>,
      <<"SELECT", " ", "[", "Customer", "]">> }

\* table_names = ["SalesOrderHeader", "SalesOrderDetail", "Customer"]
table_names == <<"SalesOrderHeader", "SalesOrderDetail", "Customer">>

\* \b stands between a word and what is not a word character.
IsWord(lexeme) == lexeme \notin {"[", "]", ".", " "}

\* The pattern rf"(?<!\[)\b{table_name}\b(?!\])" matches at lexeme i: the word
\* is the table name, no "[" stands right before it and no "]" right after it.
BracketMatch(sql, table_name, i) ==
    /\ sql[i] = table_name
    /\ i > 1 => (sql[i - 1] # "[" /\ ~IsWord(sql[i - 1]))
    /\ i < Len(sql) => (sql[i + 1] # "]" /\ ~IsWord(sql[i + 1]))

\* A substitution that looks at the bracket before the name only.
RECURSIVE SubBracketFromBefore(_, _, _)
SubBracketFromBefore(sql, table_name, i) ==
    IF i > Len(sql) THEN <<>>
    ELSE (IF sql[i] = table_name /\ (i > 1 => sql[i - 1] # "[")
          THEN <<"[", table_name, "]">>
          ELSE <<sql[i]>>)
         \o SubBracketFromBefore(sql, table_name, i + 1)

\* re.sub(pattern, f"[{table_name}]", sql), from lexeme i on: every match is
\* replaced by the bracketed name, the rest is copied.
RECURSIVE SubBracketFrom(_, _, _)
SubBracketFrom(sql, table_name, i) ==
    IF i > Len(sql) THEN <<>>
    ELSE (IF BracketMatch(sql, table_name, i)
          THEN <<"[", table_name, "]">>
          ELSE <<sql[i]>>)
         \o SubBracketFrom(sql, table_name, i + 1)

\* The pattern rf"\[{table_name}\]" matches at lexeme i.
SchemaMatch(sql, table_name, i) ==
    /\ i + 2 <= Len(sql)
    /\ sql[i] = "["
    /\ sql[i + 1] = table_name
    /\ sql[i + 2] = "]"

\* re.sub(pattern, f"[Sales].[{table_name}]", full_sql), from lexeme i on.
RECURSIVE SubSchemaFrom(_, _, _)
SubSchemaFrom(sql, table_name, i) ==
    IF i > Len(sql) THEN <<>>
    ELSE IF SchemaMatch(sql, table_name, i)
         THEN <<"[", "Sales", "]", ".", "[", table_name, "]">>
              \o SubSchemaFrom(sql, table_name, i + 3)
         ELSE <<sql[i]>> \o SubSchemaFrom(sql, table_name, i + 1)

\* The first loop over table_names: `sql`, the text execute_sql runs. Each
\* round goes on with the value `subbed` of its substitution.
RECURSIVE SanitizeFrom(_, _)
SanitizeFrom(sql, k) ==
    IF k > Len(table_names) THEN sql
    ELSE CHOOSE out \in {SanitizeFrom(subbed, k + 1) :
                          subbed \in {SubBracketFrom(sql, table_names[k], 1)}} : TRUE

Sanitize(sql) == SanitizeFrom(sql, 1)

\* The second loop over table_names, on the sanitized text.
RECURSIVE AddSchemaFrom(_, _)
AddSchemaFrom(full_sql, k) ==
    IF k > Len(table_names) THEN full_sql
    ELSE CHOOSE out \in {AddSchemaFrom(subbed, k + 1) :
                          subbed \in {SubSchemaFrom(full_sql, table_names[k], 1)}} : TRUE

\* `full_sql`, the text of the reference.
FullSql(sql) ==
    CHOOSE out \in {AddSchemaFrom(full_sql, 1) : full_sql \in {Sanitize(sql)}} : TRUE

\* self.sql_database.engine.url.database, from the connection string
DatabaseName == "AdventureWorksLT2022"

\* ReferenceInfo(sql_query=full_sql, sql_database_name=...)
ReferenceInfo(sql) ==
    [sql_query |-> FullSql(sql), sql_database_name |-> DatabaseName]

\* SimpleSqlDBWorkflow.generate_sql: schema lookup, llm.chat and parsing, none
\* of it inside a try.
\*   o: "ok" or "raise"; sql: the text parsed from the model's answer
GenerateSqlStep(r, o, sql) ==
    IF o = "raise" THEN Raise(r, "generate_sql")
    ELSE Emit([r EXCEPT !.sql = sql], "generate_sql", "SQLEvent")

GenerateSql(s) ==
    /\ app = "sql"
    /\ Ready(s, "generate_sql")
    /\ \E o \in {"ok", "raise"}, sql \in SqlTexts :
         wf' = [wf EXCEPT ![s] = GenerateSqlStep(@, o, sql)]
    /\ UNCHANGED <<app, agentCache, st, ctxStore, widget, dataDir>>
    /\ UNCHANGED admVars

\* The call of execute_sql's try block that raised, "none" when none did.
\*   sqlFails: sql_retriever.retrieve raised; countFails: count_tokens raised;
\*   tooLong: count_tokens(result) > 8000; llmFails: the synthesis call raised
ExecError(sqlFails, countFails, tooLong, llmFails) ==
    IF sqlFails THEN "retrieve"
    ELSE IF countFails THEN "count_tokens"
    ELSE IF tooLong THEN "none"
    ELSE IF llmFails THEN "llm"
    ELSE "none"

TooLongText == "Result too long. Please run this SQL manually."

\* The response execute_sql returns.
ExecResponse(sqlFails, countFails, tooLong, llmFails) ==
    IF ExecError(sqlFails, countFails, tooLong, llmFails) # "none"
    THEN "SQL execution error"
    ELSE IF tooLong THEN TooLongText
    ELSE "summary"

\* The token counts of str(rows) that are told apart: the limit, and one
\* token more.
MaxResultTokens == 8000
TokenCounts == {MaxResultTokens, MaxResultTokens + 1}

\* A test that refuses a result of exactly 8000 tokens too.
TooLongInclusive(tokens) == tokens >= MaxResultTokens

\* `if count_tokens(result_str) > 8000`
TooLong(tokens) == tokens > MaxResultTokens

\* count_tokens(result_str) as the step got it: the count, or NotCounted when
\* the retrieval or the count raised before there was one.
CountTokens(sqlFails, countFails, tokens) ==
    IF sqlFails \/ countFails THEN NotCounted ELSE tokens

\* Whether self.llm.chat(fmt_messages) is reached: the retrieval and the count
\* returned and the early return of the long result was not taken.
LlmChat(sqlFails, countFails, tokens) ==
    ~sqlFails /\ ~countFails /\ ~TooLong(tokens)

\* An execute_sql without its try/except: a failing retrieval, token count
\* or synthesis call raises out of the step.
ExecuteSqlStepNoTry(r, sqlFails, countFails, tokens, llmFails) ==
    IF ExecError(sqlFails, countFails, TooLong(tokens), llmFails) # "none"
    THEN Raise([r EXCEPT !.err = ExecError(sqlFails, countFails, TooLong(tokens), llmFails),
                         !.executed = Sanitize(r.sql),
                        !.tokens = CountTokens(sqlFails, countFails, tokens),
                         !.llm = LlmChat(sqlFails, countFails, tokens)],
               "execute_sql")
    ELSE Emit([r EXCEPT !.out = ExecResponse(sqlFails, countFails, TooLong(tokens), llmFails),
                        !.executed = Sanitize(r.sql),
                        !.tokens = CountTokens(sqlFails, countFails, tokens),
                        !.llm = LlmChat(sqlFails, countFails, tokens),
                        !.ref = ReferenceInfo(r.sql)],
              "execute_sql", "StopEvent")

\* An execute_sql whose try covers the retrieval only: a failing token count
\* or synthesis call raises out of the step.
ExecuteSqlStepTryRetrieve(r, sqlFails, countFails, tokens, llmFails) ==
    IF ExecError(sqlFails, countFails, TooLong(tokens), llmFails) \in {"count_tokens", "llm"}
    THEN Raise([r EXCEPT !.err = ExecError(sqlFails, countFails, TooLong(tokens), llmFails),
                         !.executed = Sanitize(r.sql),
                        !.tokens = CountTokens(sqlFails, countFails, tokens),
                         !.llm = LlmChat(sqlFails, countFails, tokens)],
               "execute_sql")
    ELSE Emit([r EXCEPT !.out = ExecResponse(sqlFails, countFails, TooLong(tokens), llmFails),
                        !.err = ExecError(sqlFails, countFails, TooLong(tokens), llmFails),
                        !.executed = Sanitize(r.sql),
                        !.tokens = CountTokens(sqlFails, countFails, tokens),
                        !.llm = LlmChat(sqlFails, countFails, tokens),
                        !.ref = ReferenceInfo(r.sql)],
              "execute_sql", "StopEvent")

\* SimpleSqlDBWorkflow.execute_sql: try/except around retrieval, token count
\* and synthesis, every path returns a CommonStopEvent with a reference.
\*   tokens: what count_tokens(str(rows)) returns, should it be called
ExecuteSqlStep(r, sqlFails, countFails, tokens, llmFails) ==
    Emit([r EXCEPT !.out = ExecResponse(sqlFails, countFails, TooLong(tokens), llmFails),
                   !.err = ExecError(sqlFails, countFails, TooLong(tokens), llmFails),
                   !.executed = Sanitize(r.sql),
                   !.tokens = CountTokens(sqlFails, countFails, tokens),
                   !.llm = LlmChat(sqlFails, countFails, tokens),
                   !.ref = ReferenceInfo(r.sql)],
         "execute_sql", "StopEvent")

ExecuteSql(s) ==
    /\ app = "sql"
    /\ Ready(s, "execute_sql")
    /\ \E sqlFails \in BOOLEAN, countFails \in BOOLEAN,
          tokens \in TokenCounts, llmFails \in BOOLEAN :
         wf' = [wf EXCEPT ![s] =
                  ExecuteSqlStep(@, sqlFails, countFails, tokens, llmFails)]
    /\ UNCHANGED <<app, agentCache, st, ctxStore, widget, dataDir>>
    /\ UNCHANGED admVars


\* ------------------------------------------------------------ chat front end
NewSession ==
    [started |-> FALSE, messages |-> <<>>, agent |-> "unset", shown |-> FALSE,
     busy |-> FALSE, runs |-> 0]

\* get_agent under st.cache_resource: the first call computes and caches the
\* value it returns, later calls (of any session) return the cached value.
\* The SQL app's get_agent catches the failure of build_sql_workflow and
\* returns None, which is cached like any value.
\*   built: whether build_sql_workflow succeeds, should it be called
GetAgent(cache, a, built) ==
    IF cache # "empty" THEN cache
    ELSE IF a = "sql" /\ ~built THEN "None"
    ELSE "wf"

\* file uploading, at the top of every run of the kb script
WriteUploads(a, dir, F) == IF a = "kb" THEN dir \cup Saved(F) ELSE dir

\* The first script run of a session: greeting, agent, and in the SQL app
\* st.stop() before the chat input when the agent is None.
StartSession(s) ==
    /\ ~st[s].started
    /\ \E built \in BOOLEAN :
         LET agent == GetAgent(agentCache, app, built)
         IN  /\ agentCache' = agent
             /\ st' = [st EXCEPT ![s] =
                         [@ EXCEPT !.started = TRUE,
                                   !.messages = <<Greeting(app)>>,
                                   !.agent = agent,
                                   !.shown = (agent # "None")]]
    /\ dataDir' = WriteUploads(app, dataDir, widget[s])
    /\ UNCHANGED <<app, wf, ctxStore, widget>>
    /\ UNCHANGED admVars

\* A later script run without a prompt (any rerun of the session's script):
\* "messages" and "agent" are in the session state, so both blocks are skipped
\* and the run reaches the chat input.
Rerun(s) ==
    /\ st[s].started
    /\ ~st[s].busy
    /\ st' = [st EXCEPT ![s].shown = TRUE]
    /\ dataDir' = WriteUploads(app, dataDir, widget[s])
    /\ UNCHANGED <<app, agentCache, wf, ctxStore, widget>>
    /\ UNCHANGED admVars

\* kb: the user changes the content of the file_uploader; the script reruns.
Upload(s, F) ==
    /\ app = "kb"
    /\ st[s].started
    /\ ~st[s].busy
    /\ widget' = [widget EXCEPT ![s] = F]
    /\ dataDir' = WriteUploads(app, dataDir, F)
    /\ UNCHANGED <<app, agentCache, st, wf, ctxStore>>
    /\ UNCHANGED admVars

\* the prompts the session has submitted
Turns(s) == Cardinality({i \in DOMAIN st[s].messages : st[s].messages[i].role = "user"})

RECURSIVE SumTurns(_)
SumTurns(S) ==
    IF S = {} THEN 0
    ELSE LET s == CHOOSE x \in S : TRUE IN Turns(s) + SumTurns(S \ {s})
TotalTurns == SumTurns(Sessions)

\* The chat input handler up to the await of agent.run: the user message is
\* appended and the run is started. With the agent None the call raises at
\* once and the except branch appends the error text.
Submit(s, p) ==
    /\ st[s].started
    /\ st[s].shown
    /\ ~st[s].busy
    /\ TotalTurns < MaxTurns
    /\ dataDir' = WriteUploads(app, dataDir, widget[s])
    /\ IF st[s].agent = "None"
       THEN /\ st' = [st EXCEPT ![s].messages = @ \o <<UserMsg(p), ErrorMsg(NoAgentErrorText)>>]
            /\ UNCHANGED <<wf, ctxStore>>
       ELSE /\ st' = [st EXCEPT ![s].messages = Append(@, UserMsg(p)),
                                ![s].runs = @ + 1,
                                ![s].busy = TRUE]
            /\ wf' = [wf EXCEPT ![s] = NewRun(p, widget[s])]
            /\ ctxStore' = [ctxStore EXCEPT ![CtxOf(s)] = "unset"]
    /\ UNCHANGED <<app, agentCache, widget>>
    /\ UNCHANGED admVars

\* A handler that stores the reference's sql_query whatever it holds.
SqlMsgAlways(response, ref) ==
    [role |-> "assistant", content |-> response, sql_query |-> ref.sql_query]

\* The SQL handler's message_data: the response, and the reference's
\* sql_query when there is one (`if result.reference and
\* result.reference.sql_query`).
SqlMsg(response, ref) ==
    IF ref # NoRef /\ ref.sql_query # <<>>
    THEN [role |-> "assistant", content |-> response, sql_query |-> ref.sql_query]
    ELSE [role |-> "assistant", content |-> response]

\* A loop that keeps the last chunk only (`response_content = chunk`).
ReadStreamFromLast(content, chunks, i) ==
    IF chunks = <<>> THEN content ELSE chunks[Len(chunks)]

\* `response_content = ""`, then `response_content += chunk` for every chunk
\* of result.async_response_gen(), from chunk i on.
RECURSIVE ReadStreamFrom(_, _, _)
ReadStreamFrom(content, chunks, i) ==
    IF i > Len(chunks) THEN content
    ELSE ReadStreamFrom(content \o chunks[i], chunks, i + 1)

ReadStream(chunks) == ReadStreamFrom("", chunks, 1)

\* What the handler appends once run() has returned or raised.
\*   streamOk: whether reading async_response_gen() to its end succeeds
Reply(a, r, streamOk) ==
    IF r.status = "failed" THEN ErrorMsg(StepErrorText)
    ELSE IF r.status = "timedout" THEN ErrorMsg(TimeoutErrorText)
    ELSE IF a = "sql" THEN SqlMsg(r.out, r.ref)
    ELSE IF r.out # "stream" THEN AnswerMsg(r.out)
    ELSE IF ~streamOk THEN ErrorMsg(StreamErrorText)
    ELSE AnswerMsg(ReadStream(r.chunks))

\* The rest of the chat input handler: the assistant message of the turn.
Finish(s) ==
    /\ st[s].busy
    /\ wf[s].status \in {"stopped", "failed", "timedout"}
    /\ \E streamOk \in BOOLEAN :
         st' = [st EXCEPT ![s].messages = Append(@, Reply(app, wf[s], streamOk)),
                          ![s].busy = FALSE]
    /\ wf' = [wf EXCEPT ![s] = NoRun]
    /\ UNCHANGED <<app, agentCache, ctxStore, widget, dataDir>>
    /\ UNCHANGED admVars

ChatInit ==
    /\ app \in Front
    /\ agentCache = "empty"
    /\ st = [s \in Sessions |-> NewSession]
    /\ wf = [s \in Sessions |-> NoRun]
    /\ ctxStore = [s \in Sessions |-> "unset"]
    /\ widget = [s \in Sessions |-> {}]
    /\ dataDir = {}


\* ---------------------------------------------------------- admission portal
None == <<"None">>
Absent == <<"absent">>
Old == <<"old">>
AnalysisOf(id) == <<"analysis", id>>
ReviewOf(id) == <<"review", id>>

\* An application record. `complete` is app.get('is_complete', True): records
\* made by Submit carry no such key. Of the document paths the record keeps
\* the number of letter paths.
Record(id, name, status, processed, text, complete, letters) ==
    [id |-> id, name |-> name, status |-> status, processed |-> processed,
     analysis |-> text, review |-> text, complete |-> complete,
     letters |-> letters]

\* Contents the default file may have when the server starts.
PendingList == << Record(1, "ann", "Pending Review", FALSE, None, TRUE, 2) >>
ReviewedList ==
    << Record(1, "ann", "Reviewed", TRUE, Old, TRUE, 2),
       Record(2, "bob", "Incomplete", FALSE, None, FALSE, 1) >>

\* The file systems a server may start on: the default applications file
\* (missing, or holding a list) and the files left in result/ (absent, or
\* holding the texts of some earlier processing).
Servers ==
    { [default |-> [state |-> "missing", list |-> <<>>], result |-> Absent],
      [default |-> [state |-> "missing", list |-> <<>>], result |-> Old],
      [default |-> [state |-> "ok", list |-> PendingList], result |-> Old],
      [default |-> [state |-> "ok", list |-> ReviewedList], result |-> Absent],
      [default |-> [state |-> "ok", list |-> ReviewedList], result |-> Old] }

\* json.load of a file: its list, or the except / else branch when the file
\* is missing or unreadable.
ReadList(file) == IF file.state = "ok" THEN file.list ELSE <<>>

\* A load_applications that opens DATA_FILE, the file save_applications writes.
LoadedDataFile == dataFile

\* The file load_applications opens: DEFAULT_DATA_FILE.
LoadedFile == defaultFile

\* load_applications: the list of the default file, [] when there is none.
LoadApplications == ReadList(LoadedFile)

\* `if len(st.session_state.applications) == 0: load_applications()`, at the
\* top of every script run.
Startup(list) == IF Len(list) = 0 THEN LoadApplications ELSE list

\* save_applications: the session's list replaces the content of DATA_FILE.
SaveApplications(list) == [state |-> "ok", list |-> list]

\* f"APP-{len(st.session_state.applications) + 1:04d}"
NextId(list) == Len(list) + 1

\* A validation that is content with one recommendation letter.
ValidOneLetter(name, email, transcript, resume, letters) ==
    /\ name # ""
    /\ email # ""
    /\ transcript
    /\ resume
    /\ letters >= 1

\* The validation of the Submit Application handler.
Valid(name, email, transcript, resume, letters) ==
    /\ name # ""
    /\ email # ""
    /\ transcript
    /\ resume
    /\ letters >= 2

NewApplication(list, name, letters) ==
    Record(NextId(list), name, "Pending Review", FALSE, None, TRUE, letters)

\* next((a for a in applications if a['id'] == app_id), None): 0 when there is none
FindApp(list, id) ==
    IF \E i \in DOMAIN list : list[i].id = id
    THEN CHOOSE i \in DOMAIN list :
            list[i].id = id /\ \A j \in DOMAIN list : list[j].id = id => i <= j
    ELSE 0

\* The processing branch is entered and has work to do.
Processing(s) ==
    /\ sel[s].processing # 0
    /\ FindApp(apps[s], sel[s].processing) # 0
    /\ ~apps[s][FindApp(apps[s], sel[s].processing)].processed

\* The Submit Application handler (Student Dashboard).
SubmitApplication(s, name, email, transcript, resume, letters, demo) ==
    /\ ~Processing(s)
    /\ LET cur == Startup(apps[s])
       IN  IF Valid(name, email, transcript, resume, letters)
           THEN /\ submitted < MaxSubmits
                /\ submitted' = submitted + 1
                /\ apps' = [apps EXCEPT ![s] =
                              Append(cur, NewApplication(cur, name, letters))]
                /\ dataFile' = SaveApplications(apps'[s])
                /\ fs' = IF demo THEN fs
                         ELSE [fs EXCEPT !.written = @ \cup {"temp_uploads"}]
           ELSE /\ apps' = [apps EXCEPT ![s] = cur]
                /\ UNCHANGED <<dataFile, fs, submitted>>
    /\ UNCHANGED <<adm, defaultFile, sel>>
    /\ UNCHANGED chatVars

\* The Refresh button: load_applications() and st.rerun().
Refresh(s) ==
    /\ ~Processing(s)
    /\ apps' = [apps EXCEPT ![s] =
                  Startup(LoadApplications)]
    /\ UNCHANGED <<adm, defaultFile, dataFile, sel, fs, submitted>>
    /\ UNCHANGED chatVars

\* The status filter of the queue: which cards the selected filter shows.
Shown(rec, filter) ==
    CASE filter = "Pending Review" -> ~rec.processed
      [] filter = "Processed" -> rec.processed
      [] OTHER -> TRUE

Filters == {"All", "Pending Review", "Processed"}

\* A Process button shown on every card, whatever the record.
ClickProcessAny(s, i) ==
    /\ ~Processing(s)
    /\ i \in DOMAIN apps[s]
    /\ \E f \in Filters : Shown(apps[s][i], f)
    /\ sel' = [sel EXCEPT ![s].processing = apps[s][i].id]
    /\ UNCHANGED <<adm, defaultFile, dataFile, apps, fs, submitted>>
    /\ UNCHANGED chatVars

\* The Process button of a queue card: shown for an unprocessed complete record.
ClickProcess(s, i) ==
    /\ ~Processing(s)
    /\ i \in DOMAIN apps[s]
    /\ \E f \in Filters : Shown(apps[s][i], f)
    /\ ~apps[s][i].processed
    /\ apps[s][i].complete
    /\ sel' = [sel EXCEPT ![s].processing = apps[s][i].id]
    /\ UNCHANGED <<adm, defaultFile, dataFile, apps, fs, submitted>>
    /\ UNCHANGED chatVars

\* The View button of a queue card: shown for a processed record.
View(s, i) ==
    /\ ~Processing(s)
    /\ i \in DOMAIN apps[s]
    /\ \E f \in Filters : Shown(apps[s][i], f)
    /\ apps[s][i].processed
    /\ sel' = [sel EXCEPT ![s].viewing = apps[s][i].id]
    /\ UNCHANGED <<adm, defaultFile, dataFile, apps, fs, submitted>>
    /\ UNCHANGED chatVars

\* The Close button: shown next to View for the record being viewed.
Close(s, i) ==
    /\ ~Processing(s)
    /\ i \in DOMAIN apps[s]
    /\ \E f \in Filters : Shown(apps[s][i], f)
    /\ apps[s][i].processed
    /\ sel[s].viewing = apps[s][i].id
    /\ sel' = [sel EXCEPT ![s].viewing = 0]
    /\ UNCHANGED <<adm, defaultFile, dataFile, apps, fs, submitted>>
    /\ UNCHANGED chatVars


\* -------------------------------------------------------- AdmissionWorkflow
\* AdmissionWorkflow.__init__ and run(start_event=...): a new instance per
\* processing, no document loaded, the AdmissionStartEvent in flight.
NewAdmission(id) ==
    [id |-> id, status |-> "active", ev |-> "AdmissionStartEvent", log |-> <<>>,
     transcript |-> FALSE, resume |-> FALSE, letters |-> 0,
     analysis |-> None, result |-> None, wrote |-> {}]

AdmFail(w, step) ==
    [w EXCEPT !.log = Append(@, step), !.status = "failed", !.ev = "none"]

\* upload_documents_step: upload_transcript, upload_resume and one
\* upload_recommendation_letter per path; a reader may raise, or load nothing.
\*   d.raise: one of the readers raised; d.transcript, d.resume: the reader
\*   loaded a document; d.letters: the letters whose reader loaded a document
UploadDocumentsStep(w, d) ==
    IF d.raise THEN AdmFail(w, "upload_documents_step")
    ELSE [w EXCEPT !.log = Append(@, "upload_documents_step"),
                   !.transcript = d.transcript,
                   !.resume = d.resume,
                   !.letters = d.letters,
                   !.ev = "AnalyzeApplicationEvent"]

\* What loading the documents of a record with n letter paths may give.
Loads(n) ==
    [raise : {TRUE}, transcript : {FALSE}, resume : {FALSE}, letters : {0}]
    \cup [raise : {FALSE}, transcript : BOOLEAN, resume : BOOLEAN, letters : 0..n]

\* A completeness test that is content with one recommendation letter.
IsCompleteOneLetter(w) == w.transcript /\ w.resume /\ w.letters >= 1

\* AdmissionWorkflow.is_complete
IsComplete(w) == w.transcript /\ w.resume /\ w.letters >= 2

\* An analyze_application_step that writes where the portal reads:
\* result/analysis_result.txt under the script directory.
AnalyzeApplicationStepToResult(w, an) ==
    IF an = "raise" THEN AdmFail(w, "analyze_application_step")
    ELSE LET w1 == [w EXCEPT !.log = Append(@, "analyze_application_step"),
                             !.analysis = AnalysisOf(w.id),
                             !.wrote = @ \cup {"admission_workflow.log",
                                                 "result/analysis_result.txt"}]
         IN  IF IsComplete(w1)
             THEN [w1 EXCEPT !.ev = "ReviewApplicationEvent"]
             ELSE [w1 EXCEPT !.ev = "none", !.status = "stopped",
                             !.result = <<w1.analysis>>]

\* analyze_application_step: the analysis goes to the context store and to
\* ./analysis_result.txt; then review, or stop with the analysis alone.
\*   an: "ok", or "raise" (llm.complete raised)
AnalyzeApplicationStep(w, an) ==
    IF an = "raise" THEN AdmFail(w, "analyze_application_step")
    ELSE LET w1 == [w EXCEPT !.log = Append(@, "analyze_application_step"),
                             !.analysis = AnalysisOf(w.id),
                             !.wrote = @ \cup {"admission_workflow.log",
                                                 "./analysis_result.txt"}]
         IN  IF IsComplete(w1)
             THEN [w1 EXCEPT !.ev = "ReviewApplicationEvent"]
             ELSE [w1 EXCEPT !.ev = "none", !.status = "stopped",
                             !.result = <<w1.analysis>>]

\* review_application_step: the review goes to ./review_result.txt and the
\* result is the stored analysis followed by the review.
ReviewApplicationStep(w, rv) ==
    IF rv = "raise" THEN AdmFail(w, "review_application_step")
    ELSE [w EXCEPT !.log = Append(@, "review_application_step"),
                   !.wrote = @ \cup {"admission_workflow.log",
                                       "./review_result.txt"},
                   !.ev = "none", !.status = "stopped",
                   !.result = <<w.analysis, ReviewOf(w.id)>>]

\* One run of the workflow: every step runs when the event it accepts arrives.
AdmissionRun(w, d, an, rv) ==
    LET w1 == UploadDocumentsStep(w, d)
        w2 == IF w1.status = "active" /\ w1.ev = "AnalyzeApplicationEvent"
              THEN AnalyzeApplicationStep(w1, an) ELSE w1
        w3 == IF w2.status = "active" /\ w2.ev = "ReviewApplicationEvent"
              THEN ReviewApplicationStep(w2, rv) ELSE w2
    IN  w3

\* The runs the workflow may make on the documents of record rec. A run cut
\* short by its timeout (timeout=300) is, to the portal, a run whose next
\* step raised.
AdmissionRuns(rec) ==
    { AdmissionRun(NewAdmission(rec.id), d, an, rv) :
        d \in Loads(rec.letters), an \in {"ok", "raise"}, rv \in {"ok", "raise"} }

\* What the portal sees of a run: whether run() returned or raised, and the
\* files the steps wrote meanwhile.
RunOutcomes(rec) ==
    { [status |-> w.status, wrote |-> w.wrote] : w \in AdmissionRuns(rec) }

\* No run of the workflow is followed step by step.
NoAdmission == [w |-> [NewAdmission("none") EXCEPT !.status = "idle", !.ev = "none"],
                paths |-> 0]

\* The applications whose run is followed, and the start events of their runs:
\* AdmissionStartEvent with a transcript path, a resume path and `paths`
\* letter paths, given to a new AdmissionWorkflow.
RunIds == {"APP-1", "APP-2"}
StartAdmission(id, paths) == [w |-> NewAdmission(id), paths |-> paths]

\* The event loop delivers the AdmissionStartEvent to upload_documents_step.
UploadDocuments ==
    /\ adm.w.status = "active"
    /\ adm.w.ev = "AdmissionStartEvent"
    /\ \E d \in Loads(adm.paths) :
         adm' = [adm EXCEPT !.w = UploadDocumentsStep(@, d)]
    /\ UNCHANGED <<defaultFile, dataFile, apps, sel, fs, submitted>>
    /\ UNCHANGED chatVars

\* The event loop delivers the AnalyzeApplicationEvent to analyze_application_step.
AnalyzeApplication ==
    /\ adm.w.status = "active"
    /\ adm.w.ev = "AnalyzeApplicationEvent"
    /\ \E an \in {"ok", "raise"} :
         adm' = [adm EXCEPT !.w = AnalyzeApplicationStep(@, an)]
    /\ UNCHANGED <<defaultFile, dataFile, apps, sel, fs, submitted>>
    /\ UNCHANGED chatVars

\* The event loop delivers the ReviewApplicationEvent to review_application_step.
ReviewApplication ==
    /\ adm.w.status = "active"
    /\ adm.w.ev = "ReviewApplicationEvent"
    /\ \E rv \in {"ok", "raise"} :
         adm' = [adm EXCEPT !.w = ReviewApplicationStep(@, rv)]
    /\ UNCHANGED <<defaultFile, dataFile, apps, sel, fs, submitted>>
    /\ UNCHANGED chatVars

\* "Load results": SCRIPT_DIR/result/<name>, None when the file does not exist.
ReadResult(file) == IF file = Absent THEN None ELSE file

\* An update that marks the record processed and leaves its status alone.
UpdateApplicationNoStatus(list, id, analysis, review) ==
    [list EXCEPT ![FindApp(list, id)] =
        [@ EXCEPT !.processed = TRUE,
                  !.analysis = analysis, !.review = review]]

\* "Update application": the record found by id gets the loaded texts.
UpdateApplication(list, id, analysis, review) ==
    [list EXCEPT ![FindApp(list, id)] =
        [@ EXCEPT !.processed = TRUE, !.status = "Reviewed",
                  !.analysis = analysis, !.review = review]]

\* The processing branch of the script run that follows a Process click: the
\* workflow runs on the documents of the record found by id. When it returns,
\* the results are loaded, the record is updated and saved, and the record is
\* shown; after an exception (of the run or of the save) the error is shown.
\* Either way the processing marker is removed.
\*   saveOk: whether save_applications succeeds
Process(s) ==
    /\ Processing(s)
    /\ LET rec == apps[s][FindApp(apps[s], sel[s].processing)]
       IN  \E w \in RunOutcomes(rec), saveOk \in BOOLEAN :
                 /\ IF w.status = "stopped"
                    THEN /\ apps' = [apps EXCEPT ![s] =
                                       UpdateApplication(@, sel[s].processing,
                                                         ReadResult(fs.resAnalysis),
                                                         ReadResult(fs.resReview))]
                         /\ dataFile' = IF saveOk THEN SaveApplications(apps'[s])
                                        ELSE dataFile
                         /\ sel' = [sel EXCEPT
                                      ![s].processing = 0,
                                      ![s].viewing = IF saveOk THEN sel[s].processing
                                                     ELSE @]
                    ELSE /\ sel' = [sel EXCEPT ![s].processing = 0]
                         /\ UNCHANGED <<apps, dataFile>>
                 /\ fs' = [fs EXCEPT !.written = @ \cup w.wrote]
    /\ UNCHANGED <<adm, defaultFile, submitted>>
    /\ UNCHANGED chatVars

AdmInit ==
    /\ \E srv \in Servers :
         /\ defaultFile = srv.default
         /\ fs = [resAnalysis |-> srv.result, resReview |-> srv.result,
                  written |-> {}]
    /\ dataFile = [state |-> "missing", list |-> <<>>]
    /\ apps = [s \in Sessions |-> LoadApplications]
    /\ sel = [s \in Sessions |-> [processing |-> 0, viewing |-> 0]]
    /\ submitted = 0
    /\ adm = NoAdmission

\* ------------------------------------------------------------ specifications
\* The forms a student may send: with "Use Demo Files" the documents are the
\* demo transcript, resume and two letters; otherwise any field may be missing,
\* one at a time, and any number of letters may be uploaded.
Form(name, email, transcript, resume, letters, demo) ==
    [name |-> name, email |-> email, transcript |-> transcript,
     resume |-> resume, letters |-> letters, demo |-> demo]
Forms ==
    { Form("cat", "cat@x.org", TRUE, TRUE, 2, TRUE),
      Form("", "cat@x.org", TRUE, TRUE, 2, TRUE),
      Form("cat", "", TRUE, TRUE, 2, TRUE),
      Form("cat", "cat@x.org", FALSE, TRUE, 2, FALSE),
      Form("cat", "cat@x.org", TRUE, FALSE, 2, FALSE) }
    \cup { Form("cat", "cat@x.org", TRUE, TRUE, n, FALSE) : n \in LetterCounts }

\* The portal is not deployed: its state stays as on a server without files.
PortalFrozen ==
    /\ defaultFile = [state |-> "missing", list |-> <<>>]
    /\ dataFile = [state |-> "missing", list |-> <<>>]
    /\ apps = [s \in Sessions |-> <<>>]
    /\ sel = [s \in Sessions |-> [processing |-> 0, viewing |-> 0]]
    /\ fs = [resAnalysis |-> Absent, resReview |-> Absent, written |-> {}]
    /\ submitted = 0

AdmFrozen == PortalFrozen /\ adm = NoAdmission

\* No chat front end is deployed.
ChatFrozen ==
    /\ app = "wiki"
    /\ agentCache = "empty"
    /\ st = [s \in Sessions |-> NewSession]
    /\ wf = [s \in Sessions |-> NoRun]
    /\ ctxStore = [s \in Sessions |-> "unset"]
    /\ widget = [s \in Sessions |-> {}]
    /\ dataDir = {}

Init == ChatInit /\ AdmFrozen

Next ==
    \E s \in Sessions :
        \/ StartSession(s)
        \/ Rerun(s)
        \/ \E F \in UploadSets : Upload(s, F)
        \/ \E p \in Prompts : Submit(s, p)
        \/ Ingest(s)
        \/ Retrieve(s)
        \/ Rerank(s)
        \/ Synthesize(s)
        \/ Timeout(s)
        \/ GenerateSql(s)
        \/ ExecuteSql(s)
        \/ Finish(s)

\* The chat front ends and their workflows.
Spec == Init /\ [][Next]_vars

InitAdmission == AdmInit /\ ChatFrozen

NextAdmission ==
    \E s \in Sessions :
        \/ \E form \in Forms :
             SubmitApplication(s, form.name, form.email, form.transcript,
                               form.resume, form.letters, form.demo)
        \/ Refresh(s)
        \/ \E i \in DOMAIN apps[s] : ClickProcess(s, i)
        \/ \E i \in DOMAIN apps[s] : View(s, i)
        \/ \E i \in DOMAIN apps[s] : Close(s, i)
        \/ Process(s)

\* The admission portal.
SpecAdmission == InitAdmission /\ [][NextAdmission]_vars

\* The start events a caller of a RAG workflow may pass: no query (None), an
\* empty one, or a question; an empty directory name or "data".
StartQueries == {"none", "", "q1"}
Dirnames == {"", "data"}

\* agent.run(query=q, dirname=d, streaming=True) by any caller.
DirectRun(q, d) == [NewRun(q, {}) EXCEPT !.dirname = d]

StartRun(s, q, d) ==
    /\ IsRAG(app)
    /\ wf[s].status = "idle"
    /\ wf' = [wf EXCEPT ![s] = DirectRun(q, d)]
    /\ ctxStore' = [ctxStore EXCEPT ![CtxOf(s)] = "unset"]
    /\ UNCHANGED <<app, agentCache, st, widget, dataDir>>
    /\ UNCHANGED admVars

\* run() has returned its result or raised, and the caller is done with it.
EndRun(s) ==
    /\ wf[s].status \in {"stopped", "failed", "timedout"}
    /\ wf' = [wf EXCEPT ![s] = NoRun]
    /\ UNCHANGED <<app, agentCache, st, ctxStore, widget, dataDir>>
    /\ UNCHANGED admVars

\* The RAG workflows run on any start event, over a data directory that is
\* empty or holds a file.
InitRun ==
    /\ app \in {"wiki", "kb"}
    /\ agentCache = "wf"
    /\ st = [s \in Sessions |-> NewSession]
    /\ wf = [s \in Sessions |-> NoRun]
    /\ ctxStore = [s \in Sessions |-> "unset"]
    /\ widget = [s \in Sessions |-> {}]
    /\ dataDir \in {{}, {"a.txt"}}
    /\ AdmFrozen

NextRun ==
    \E s \in Sessions :
        \/ \E q \in StartQueries, d \in Dirnames : StartRun(s, q, d)
        \/ Ingest(s)
        \/ Retrieve(s)
        \/ Rerank(s)
        \/ Synthesize(s)
        \/ Timeout(s)
        \/ EndRun(s)

SpecRun == InitRun /\ [][NextRun]_vars

\* The lexemes of the SQL texts execute_sql is run on: the three table names,
\* another word (a schema name), the brackets and the dot; texts of at most
\* MaxSqlLen lexemes in which no two words are adjacent (they would be one word).
MaxSqlLen == 5
SqlLexemes ==
    {"SalesOrderHeader", "SalesOrderDetail", "Customer", "SalesLT", "[", "]", "."}
WellLexed(sql) ==
    \A i \in 1..(Len(sql) - 1) : ~(IsWord(sql[i]) /\ IsWord(sql[i + 1]))
GeneratedSqls ==
    {sql \in UNION {[1..n -> SqlLexemes] : n \in 0..MaxSqlLen} : WellLexed(sql)}

\* A run of the SQL workflow in which generate_sql has returned any SQL text.
InitSql ==
    /\ app = "sql"
    /\ agentCache = "wf"
    /\ st = [s \in Sessions |-> NewSession]
    /\ \E sql \in GeneratedSqls :
         wf = [s \in Sessions |->
                 IF s = 1 THEN GenerateSqlStep(NewRun("q1", {}), "ok", sql) ELSE NoRun]
    /\ ctxStore = [s \in Sessions |-> "unset"]
    /\ widget = [s \in Sessions |-> {}]
    /\ dataDir = {}
    /\ AdmFrozen

NextSql ==
    \E s \in Sessions :
        \/ ExecuteSql(s)
        \/ EndRun(s)

SpecSql == InitSql /\ [][NextSql]_vars

\* One run of AdmissionWorkflow, for any application and any number of
\* recommendation letter paths.
InitWorkflow ==
    /\ PortalFrozen
    /\ ChatFrozen
    /\ adm \in {StartAdmission(id, paths) : id \in RunIds, paths \in LetterCounts}

NextWorkflow ==
    \/ UploadDocuments
    \/ AnalyzeApplication
    \/ ReviewApplication

SpecWorkflow == InitWorkflow /\ [][NextWorkflow]_vars

\* The run's steps, the timeout and the handler's continuation are run by the
\* event loop of the session's script thread: whichever of them is possible
\* is eventually taken.
Advance(s) ==
    \/ Ingest(s)
    \/ Retrieve(s)
    \/ Rerank(s)
    \/ Synthesize(s)
    \/ Timeout(s)
    \/ GenerateSql(s)
    \/ ExecuteSql(s)
    \/ Finish(s)

FairSpec == Spec /\ \A s \in Sessions : WF_vars(Advance(s))

\* ------------------------------------------------------------------ properties
RAGOrder == <<"ingest", "retrieve", "rerank", "synthesize">>
SQLOrder == <<"generate_sql", "execute_sql">>

\* The steps run so far are the first steps of `order`, each at most once, and
\* each consumed the event its signature accepts, emitted just before it.
InOrder(r, order) ==
    /\ Len(r.log) <= Len(order)
    /\ \A i \in DOMAIN r.log :
          /\ r.log[i] = order[i]
          /\ i <= Len(r.events)
          /\ r.events[i] = Accepts(order[i])

\* C1: within one RAG run the steps execute strictly one after another in the
\* order ingest, retrieve, rerank, synthesize; a step starts only after the
\* event it accepts was emitted by the step before it; the StopEvent that ends
\* the run is produced by synthesize only.
C1_RAGStepsInOrder ==
    IsRAG(app) =>
        \A s \in Sessions :
            /\ InOrder(wf[s], RAGOrder)
            /\ wf[s].stopBy \in {"none", "synthesize"}
            /\ wf[s].status = "stopped" =>
                  /\ wf[s].log = RAGOrder
                  /\ wf[s].stopBy = "synthesize"
                  /\ wf[s].events[Len(wf[s].events)] = "StopEvent"
            /\ \A i \in DOMAIN wf[s].events :
                  wf[s].events[i] = "StopEvent" => i = Len(RAGOrder) + 1

\* A RAG run that went through its four steps and was ended by synthesize.
C1_Witness ==
    /\ IsRAG(app)
    /\ \E s \in Sessions :
          /\ wf[s].status = "stopped"
          /\ wf[s].log = RAGOrder
          /\ wf[s].stopBy = "synthesize"

HistoryShape(s) ==
    st[s].started =>
        /\ Len(st[s].messages) = 1 + 2 * Turns(s) - (IF st[s].busy THEN 1 ELSE 0)
        /\ st[s].messages[1] = Greeting(app)
        /\ \A i \in 2..Len(st[s].messages) :
              st[s].messages[i].role = IF i % 2 = 0 THEN "user" ELSE "assistant"

\* C3 as stated: each submitted prompt adds one user message and then one
\* assistant message to the session's history, and starts exactly one
\* workflow run, in all three chat front ends.
C3_OneRunPerPrompt ==
    \A s \in Sessions :
        /\ HistoryShape(s)
        /\ st[s].runs = Turns(s)

Unanswered(s) ==
    /\ st[s].messages # <<>>
    /\ st[s].messages[Len(st[s].messages)].role = "user"

\* C4: every submitted prompt eventually gets its assistant message, the
\* answer or the error text: no run leaves the turn waiting forever.
C4_EveryPromptAnswered ==
    \A s \in Sessions : Unanswered(s) ~> ~Unanswered(s)

\* A RAG turn that was answered with the error text.
C4_Witness ==
    /\ IsRAG(app)
    /\ \E s \in Sessions :
          /\ Turns(s) >= 1
          /\ ~st[s].busy
          /\ st[s].messages[Len(st[s].messages)] = ErrorMsg(TimeoutErrorText)

\* C5 as stated: in the file-upload front end the documents a run ingests are
\* computed from the run's own request: two runs with the same query and the
\* same uploaded files ingest the same documents.
C5_DocsFromOwnRequest ==
    app = "kb" =>
        \A s \in Sessions, t \in Sessions :
            ( /\ Len(wf[s].log) >= 1
              /\ Len(wf[t].log) >= 1
              /\ wf[s].query = wf[t].query
              /\ wf[s].req = wf[t].req )
            => wf[s].docs = wf[t].docs

\* C6: the query of a run is set once, by ingest, and every later step of the
\* run reads that value, whatever the runs of other sessions do meanwhile.
C6_QueryImmutable ==
    IsRAG(app) =>
        \A s \in Sessions :
            /\ \A i \in DOMAIN wf[s].reads : wf[s].reads[i] = wf[s].query
            /\ (wf[s].status # "idle" /\ Len(wf[s].log) >= 1) =>
                  CtxGet(s) = wf[s].query

\* Two sessions' runs with different queries, side by side, one of which has
\* read its query in all three later steps.
C6_Witness ==
    /\ IsRAG(app)
    /\ \E s \in Sessions, t \in Sessions :
          /\ s # t
          /\ wf[s].query # wf[t].query
          /\ Len(wf[t].log) >= 1
          /\ Len(wf[s].reads) = 3
          /\ wf[s].status = "stopped"

\* C7 as stated: the list a load returns after a save is the saved list.
C7_LoadReturnsSaved ==
    [][\A s \in Sessions :
          (Refresh(s) /\ dataFile.state = "ok") => apps'[s] = dataFile.list]_vars

\* C7, amended: whenever the applications file (applications_data.json) is
\* written, it holds the whole list of the session that saved, every record
\* with its current status and texts; a load (at start or by Refresh) reads
\* the default file (applications_data_default.json) instead: a list that
\* changes otherwise than by a submission or a processing becomes the
\* default list, whatever was saved.
C7_SavedThereLoadedFromDefault ==
    [][\A s \in Sessions :
          /\ (dataFile' # dataFile /\ apps'[s] # apps[s]) =>
                dataFile' = [state |-> "ok", list |-> apps'[s]]
          /\ (dataFile' # dataFile) =>
                \E u \in Sessions : dataFile' = [state |-> "ok", list |-> apps'[u]]
          /\ (apps'[s] # apps[s] /\ submitted' = submitted /\ ~Processing(s)) =>
                apps'[s] = (IF defaultFile.state = "ok" THEN defaultFile.list ELSE <<>>)
      ]_vars

\* Records were saved, and every session's list is again the default list,
\* which is not what the applications file holds.
C7_Witness ==
    /\ dataFile.state = "ok"
    /\ submitted >= 1
    /\ \A s \in Sessions :
          apps[s] = (IF defaultFile.state = "ok" THEN defaultFile.list ELSE <<>>)
    /\ dataFile.list # (IF defaultFile.state = "ok" THEN defaultFile.list ELSE <<>>)

OtherFiles ==
    {"temp_uploads", "./analysis_result.txt", "./review_result.txt",
     "admission_workflow.log"}

\* What was written is among those files, and in the order of the steps.
WrittenFiles ==
    /\ fs.written \subseteq OtherFiles
    /\ ("temp_uploads" \in fs.written) => submitted >= 1
    /\ ("./review_result.txt" \in fs.written) =>
          {"./analysis_result.txt", "admission_workflow.log"} \subseteq fs.written
    /\ ("./analysis_result.txt" \in fs.written) =>
          ("admission_workflow.log" \in fs.written)

C9_SubmitValidation ==
    [][\A s \in Sessions :
          /\ \A form \in Forms :
                ( /\ submitted' # submitted
                  /\ SubmitApplication(s, form.name, form.email, form.transcript,
                                       form.resume, form.letters, form.demo) )
                => /\ form.name # ""
                   /\ form.email # ""
                   /\ form.transcript
                   /\ form.resume
                   /\ form.letters >= 2
                   /\ Len(apps'[s]) = Len(apps[s]) + 1
                   /\ SubSeq(apps'[s], 1, Len(apps[s])) = apps[s]
                   /\ LET rec == apps'[s][Len(apps'[s])]
                      IN  /\ rec.name = form.name
                          /\ rec.status = "Pending Review"
                          /\ rec.processed = FALSE
                          /\ rec.analysis = None
                          /\ rec.review = None
                   /\ dataFile' = [state |-> "ok", list |-> apps'[s]]
          /\ (Len(apps'[s]) > Len(apps[s])) => submitted' = submitted + 1
          /\ (dataFile' # dataFile) =>
                (submitted' = submitted + 1 \/ \E u \in Sessions : Processing(u))
      ]_vars

\* A record made by Submit is the last of its session's list, pending, and
\* the applications file holds that list.
C9_Witness ==
    \E s \in Sessions :
        /\ submitted >= 1
        /\ apps[s] # <<>>
        /\ apps[s][Len(apps[s])].name = "cat"
        /\ apps[s][Len(apps[s])].status = "Pending Review"
        /\ ~apps[s][Len(apps[s])].processed
        /\ dataFile = [state |-> "ok", list |-> apps[s]]

\* processed = true exactly when status = 'Reviewed', in every list and in
\* the applications file.
StatusConsistent ==
    /\ \A s \in Sessions : \A i \in DOMAIN apps[s] :
          apps[s][i].processed <=> (apps[s][i].status = "Reviewed")
    /\ \A i \in DOMAIN dataFile.list :
          dataFile.list[i].processed <=> (dataFile.list[i].status = "Reviewed")

\* No record of the session's list that is processed is unprocessed after
\* the step.
NeverUnprocessed(s) ==
    \A i \in DOMAIN apps[s] :
        apps[s][i].processed =>
            \A j \in DOMAIN apps'[s] :
                apps'[s][j].id = apps[s][i].id => apps'[s][j].processed

\* Every record of the session's list stays in its place, unchanged unless
\* the step is the processing of that record, which takes it from pending
\* and unprocessed to 'Reviewed' and processed.
Kept(s) ==
    \A i \in DOMAIN apps[s] :
        /\ i \in DOMAIN apps'[s]
        /\ \/ apps'[s][i] = apps[s][i]
           \/ /\ Processing(s)
              /\ apps[s][i].id = sel[s].processing
              /\ ~apps[s][i].processed
              /\ apps[s][i].status = "Pending Review"
              /\ apps'[s][i].processed
              /\ apps'[s][i].status = "Reviewed"
              /\ apps'[s][i].id = apps[s][i].id
              /\ apps'[s][i].name = apps[s][i].name

\* C10 as stated: processed = true exactly when status = 'Reviewed', and a
\* processed record never becomes unprocessed again, whatever the sequence
\* of submit, process, view, close, filter and Refresh actions.
C10_NeverUnprocessed ==
    /\ []StatusConsistent
    /\ [][\A s \in Sessions : NeverUnprocessed(s)]_vars

\* C10, amended: processed = true exactly when status = 'Reviewed'; under
\* submit, process, view, close and filter actions a record is changed by
\* its processing only, from unprocessed and 'Pending Review' to processed
\* and 'Reviewed', and a processed record stays processed. Refresh replaces
\* the session's list by the default file's list, in which a record
\* processed since may be unprocessed again, or missing.
C10_ChangedByProcessingOnly ==
    /\ []StatusConsistent
    /\ [][\A s \in Sessions : Kept(s) \/ Refresh(s)]_vars

\* A submitted record that was processed since.
C10_Witness ==
    \E s \in Sessions : \E i \in DOMAIN apps[s] :
        /\ apps[s][i].name = "cat"
        /\ apps[s][i].processed
        /\ apps[s][i].status = "Reviewed"

\* C11 as stated: when a processing succeeds, the analysis stored in the
\* record is the analysis the workflow run generated for that application
\* (and so is the review, when the run made one).
C11_StoredIsGenerated ==
    [][\A s \in Sessions : \A i \in DOMAIN apps[s] :
          ( /\ Processing(s)
            /\ i \in DOMAIN apps'[s]
            /\ ~apps[s][i].processed
            /\ apps'[s][i].processed )
          => /\ apps'[s][i].analysis = AnalysisOf(apps[s][i].id)
             /\ apps'[s][i].review \in {ReviewOf(apps[s][i].id), None}
      ]_vars

\* The three outcomes of execute_sql.
ExecOutcomes == {"summary", TooLongText, "SQL execution error"}

\* The last message of a session's history.
LastMsg(msgs) == msgs[Len(msgs)]

C13_FailureBecomesValue ==
    app = "sql" =>
        \A s \in Sessions :
            /\ wf[s].err \in {"none", "retrieve", "count_tokens", "llm"}
            /\ wf[s].err # "none" =>
                  /\ wf[s].status = "stopped"
                  /\ wf[s].stopBy = "execute_sql"
                  /\ wf[s].out = "SQL execution error"
            /\ wf[s].status = "failed" => wf[s].log = <<"generate_sql">>

\* Runs ended by execute_sql with the error text after the synthesis call,
\* and after the token count, raised.
C13_Witness ==
    /\ app = "sql"
    /\ \E s \in Sessions :
          /\ wf[s].log = SQLOrder
          /\ wf[s].status = "stopped"
          /\ wf[s].err = "llm"
          /\ wf[s].out = "SQL execution error"


\* The contents an error message of a handler may have.
ErrorContents == {ErrorPrefix \o e : e \in ErrorTexts}

\* C14: a turn whose run raised (a step failed, the run timed out) or whose
\* streamed result could not be read ends with exactly one assistant message,
\* 'Sorry, I encountered an error: <text>', appended after the user message
\* of the turn, which stays; nothing of the run is left, and the next prompt
\* of the session starts a fresh run after its own user message.
C14_ErrorEndsTurn ==
    /\ [][\A s \in Sessions :
            (st[s].busy /\ ~st'[s].busy)
            => /\ Len(st'[s].messages) = Len(st[s].messages) + 1
               /\ SubSeq(st'[s].messages, 1, Len(st[s].messages)) = st[s].messages
               /\ LastMsg(st[s].messages) = UserMsg(wf[s].query)
               /\ LastMsg(st'[s].messages).role = "assistant"
               /\ wf[s].status \in {"failed", "timedout"}
                     => /\ DOMAIN LastMsg(st'[s].messages) = {"role", "content"}
                        /\ LastMsg(st'[s].messages).content \in ErrorContents
               /\ LastMsg(st'[s].messages).content = ErrorPrefix \o StreamErrorText
                     => /\ wf[s].status = "stopped"
                        /\ wf[s].out = "stream"
               /\ wf'[s] = NoRun
         ]_vars
    /\ [][\A s \in Sessions :
            (~st[s].busy /\ st'[s].busy)
            => /\ wf'[s].status = "active"
               /\ wf'[s].ev = "StartEvent"
               /\ wf'[s].log = <<>>
               /\ st'[s].messages = Append(st[s].messages, UserMsg(wf'[s].query))
         ]_vars
    /\ [](\A s \in Sessions : ~st[s].busy => wf[s] = NoRun)

\* A session whose first turn ended with the error message of a failed read
\* of the stream and whose next prompt was answered with the streamed text.
C14_Witness ==
    /\ app = "wiki"
    /\ \E s \in Sessions :
          /\ ~st[s].busy
          /\ Len(st[s].messages) = 5
          /\ st[s].messages[2].role = "user"
          /\ st[s].messages[3] = ErrorMsg(StreamErrorText)
          /\ st[s].messages[4].role = "user"
          /\ st[s].messages[5] = AnswerMsg("ab")


\* C15: in the file-upload UI a script run writes an uploaded file to the data
\* directory exactly when its size is at most 5 * 1024 * 1024 = 5242880 bytes:
\* a file of exactly that size is written, a larger one never is, nothing that
\* was written disappears, and the other front ends write no file.
C15_WrittenIffAtMost5MB ==
    /\ [](dataDir \subseteq {f.name : f \in {g \in Files : g.size <= 5242880}})
    /\ [](app # "kb" => dataDir = {})
    /\ [][\A s \in Sessions :
            (app = "kb" /\ widget'[s] # widget[s])
            => /\ \A f \in widget'[s] : (f.name \in dataDir') <=> (f.size <= 5242880)
               /\ dataDir \subseteq dataDir'
         ]_vars
    /\ [][\A s \in Sessions :
            (app = "kb" /\ st'[s] # st[s])
            => \A f \in widget[s] : f.size <= 5242880 => f.name \in dataDir'
         ]_vars

\* A file of exactly 5 * 1024 * 1024 bytes is in the data directory while a
\* session's uploader holds a file one byte larger, which is not.
C15_Witness ==
    /\ app = "kb"
    /\ \E f \in Files : f.size = 5242880 /\ f.name \in dataDir
    /\ \E s \in Sessions : \E f \in widget[s] :
          f.size = 5242881 /\ f.name \notin dataDir


\* C16: retrieve returns at most 5 nodes, the nodes of the RerankEvent that
\* synthesize receives are among the nodes retrieve returned in the same run
\* and are at most 3, and a run holds no node before its own retrieve.
C16_RerankOnlyReduces ==
    /\ [](IsRAG(app) =>
            \A s \in Sessions :
                /\ Cardinality(wf[s].nodes) <= 5
                /\ Cardinality(wf[s].ranked) <= 3
                /\ wf[s].ranked \subseteq wf[s].nodes
                /\ wf[s].ev \in {"StartEvent", "IngestEvent"}
                      => wf[s].nodes = {} /\ wf[s].ranked = {}
                /\ wf[s].ev = "RetrieverEvent" => wf[s].ranked = {})
    /\ [][\A s \in Sessions :
            (wf[s].ev = "RetrieverEvent" /\ wf'[s].ev = "RerankEvent")
            => /\ wf'[s].nodes = wf[s].nodes
               /\ wf'[s].ranked \subseteq wf[s].nodes
         ]_vars

\* A run whose retrieve returned 5 of the 6 nodes of the index and whose
\* reranker kept 3 of the 4 nodes the model chose.
C16_Witness ==
    /\ IsRAG(app)
    /\ \E s \in Sessions :
          /\ wf[s].ev = "RerankEvent"
          /\ wf[s].nodes = 1..5
          /\ wf[s].ranked = {3, 4, 5}


\* The chunks of a stream of at most two chunks, written one after the other.
Joined(chunks) ==
    CASE Len(chunks) = 0 -> ""
      [] Len(chunks) = 1 -> chunks[1]
      [] Len(chunks) = 2 -> chunks[1] \o chunks[2]

\* C17: the assistant message stored for a streamed answer holds the chunks of
\* the response generator, all of them, joined in their order of arrival
\* (unless reading the stream raised, which stores the error message); in the
\* file-upload UI the string the run returned is stored as it is, and no
\* stream is read.
C17_StoredIsConcatenation ==
    [][\A s \in Sessions :
          (IsRAG(app) /\ st[s].busy /\ ~st'[s].busy /\ wf[s].status = "stopped")
          => /\ DOMAIN LastMsg(st'[s].messages) = {"role", "content"}
             /\ LastMsg(st'[s].messages).role = "assistant"
             /\ app = "wiki"
                   => /\ wf[s].out = "stream"
                      /\ Len(wf[s].chunks) <= 2
                      /\ LastMsg(st'[s].messages).content
                            \in {Joined(wf[s].chunks), ErrorPrefix \o StreamErrorText}
             /\ app = "kb"
                   => /\ wf[s].out # "stream"
                      /\ wf[s].chunks = <<>>
                      /\ LastMsg(st'[s].messages).content = wf[s].out
      ]_vars

\* A first turn of the Wikipedia UI whose stream delivered "a" and then "b"
\* and whose stored answer is "ab".
C17_Witness ==
    /\ app = "wiki"
    /\ \E s \in Sessions :
          /\ ~st[s].busy
          /\ Len(st[s].messages) = 3
          /\ st[s].messages[3] = [role |-> "assistant", content |-> "ab"]


\* The steps of AdmissionWorkflow in the order of its events.
WorkflowOrder ==
    <<"upload_documents_step", "analyze_application_step", "review_application_step">>

\* C18: the steps of a run of AdmissionWorkflow are upload_documents_step,
\* analyze_application_step, review_application_step, in this order; once the
\* analysis is made, the review is the next step exactly when the workflow
\* holds a transcript, a resume and at least 2 letters since the upload step,
\* and otherwise the run stops with the analysis alone; a run that made the
\* review stops with the analysis of this same run followed by the review.
C18_ReviewIffComplete ==
    /\ [](LET w == adm.w
              held == w.transcript /\ w.resume /\ w.letters >= 2
          IN  /\ Len(w.log) <= 3
              /\ \A i \in DOMAIN w.log : w.log[i] = WorkflowOrder[i]
              /\ (w.status = "active" /\ Len(w.log) = 2)
                    => held /\ w.ev = "ReviewApplicationEvent"
              /\ Len(w.log) = 3 => held
              /\ w.status = "stopped" => Len(w.log) \in {2, 3}
              /\ (w.status = "stopped" /\ Len(w.log) = 2)
                    => ~held /\ w.result = <<AnalysisOf(w.id)>>
              /\ (w.status = "stopped" /\ Len(w.log) = 3)
                    => /\ w.result = <<AnalysisOf(w.id), ReviewOf(w.id)>>
                       /\ w.result[1] = w.analysis)
    /\ [][/\ Len(adm.w.log) >= 1
             => /\ adm'.w.transcript = adm.w.transcript
                /\ adm'.w.resume = adm.w.resume
                /\ adm'.w.letters = adm.w.letters
          /\ adm.w.analysis # None => adm'.w.analysis = adm.w.analysis
         ]_vars

\* A run for APP-2 with two letters loaded that stopped after the review,
\* and its result.
C18_Witness ==
    /\ adm.w.id = "APP-2"
    /\ adm.w.status = "stopped"
    /\ adm.w.log = WorkflowOrder
    /\ adm.w.letters = 2
    /\ adm.w.result = <<AnalysisOf("APP-2"), ReviewOf("APP-2")>>


\* The start events on which ingest returns None before anything else: no
\* query (Wikipedia variant); no or an empty query, or an empty directory
\* name (file-upload variant).
NoInput(a, r) ==
    IF a = "wiki" THEN r.query = "none"
    ELSE r.query \in {"none", ""} \/ r.dirname = ""

\* ingest has run and returned None: no event but the StartEvent was emitted.
IngestReturnedNone(r) ==
    r.log = <<"ingest">> /\ r.events = <<"StartEvent">> /\ r.status # "failed"

\* C19: on a start event without query (or with an empty query or directory
\* name in the file-upload variant) ingest returns None, as it does when the
\* Wikipedia search finds no page; the run then emits no event and runs no
\* further step, ingest never produces a StopEvent, and the only thing that
\* happens to the run is its timeout.
C19_NoEventThenTimeout ==
    /\ [][\A s \in Sessions :
            (wf[s].ev = "StartEvent" /\ wf'[s].log = <<"ingest">> /\ NoInput(app, wf[s]))
            => /\ IngestReturnedNone(wf'[s])
               /\ wf'[s].status = "active"
               /\ ctxStore' = ctxStore
         ]_vars
    /\ [](\A s \in Sessions :
            /\ wf[s].log = <<"ingest">> => wf[s].status \in {"active", "failed", "timedout"}
            /\ wf[s].stopBy # "ingest"
            /\ IngestReturnedNone(wf[s])
                  => /\ wf[s].ev = "none"
                     /\ wf[s].status \in {"active", "timedout"}
                     /\ wf[s].out = "none"
                     /\ wf[s].nodes = {})
    /\ [][\A s \in Sessions :
            (IngestReturnedNone(wf[s]) /\ wf[s].status = "active")
            => \/ wf'[s] = wf[s]
               \/ /\ wf'[s].status = "timedout"
                  /\ IngestReturnedNone(wf'[s])
         ]_vars

\* The runs of two callers of the Wikipedia variant: one whose search for
\* "q1" found no page, ended by the timeout, and one started without a query
\* whose ingest returned None.
C19_Witness ==
    /\ app = "wiki"
    /\ wf[1].query = "q1"
    /\ IngestReturnedNone(wf[1])
    /\ wf[1].status = "timedout"
    /\ wf[2].query = "none"
    /\ IngestReturnedNone(wf[2])

\* The same in the file-upload variant: a run started with an empty directory
\* name, ended by the timeout, and one started with an empty query.
KbNoInputRuns ==
    /\ app = "kb"
    /\ wf[1].query = "q1"
    /\ wf[1].dirname = ""
    /\ IngestReturnedNone(wf[1])
    /\ wf[1].status = "timedout"
    /\ wf[2].query = ""
    /\ wf[2].dirname = "data"
    /\ IngestReturnedNone(wf[2])

\* C20 as stated: whatever the interleaving of the two sessions, the
\* applications file holds every record submitted so far, next to those the
\* portal started with, and a save never drops a record of the file nor the
\* processing result of one.
C20_NoLostUpdate ==
    /\ [](dataFile.state = "ok"
            => Len(dataFile.list) = Len(ReadList(defaultFile)) + submitted)
    /\ [][\A j \in DOMAIN dataFile.list :
            \E k \in DOMAIN dataFile'.list :
                /\ dataFile'.list[k].id = dataFile.list[j].id
                /\ dataFile.list[j].processed => dataFile'.list[k].processed
         ]_vars


\* The ids of the records of a list.
IdsOf(list) == {list[i].id : i \in DOMAIN list}

\* C21 as stated: no two records of a session's list, or of the applications
\* file, share an id, and the id given to a new submission is not the id of a
\* record that was submitted and saved earlier.
C21_IdsUnique ==
    /\ [](\A s \in Sessions : Cardinality(IdsOf(apps[s])) = Len(apps[s]))
    /\ [](Cardinality(IdsOf(dataFile.list)) = Len(dataFile.list))
    /\ [][\A s \in Sessions :
            (submitted' = submitted + 1 /\ apps'[s] # apps[s])
            => apps'[s][Len(apps'[s])].id \notin IdsOf(dataFile.list)
         ]_vars


\* The record of session s that the processing marker names is in the list,
\* complete and not processed.
MarkedForProcess(s) ==
    LET i == FindApp(apps[s], sel[s].processing)
    IN  /\ i # 0
        /\ apps[s][i].complete
        /\ ~apps[s][i].processed

\* C22: the processing marker is only ever set on a record that is complete
\* and unprocessed, the workflow is run (the step that removes the marker)
\* only for such a record, and the only records that become processed are
\* the unprocessed record the marker named: a processed record of a list is
\* never run again.
C22_ProcessedAtMostOnce ==
    /\ [](\A s \in Sessions : sel[s].processing # 0 => MarkedForProcess(s))
    /\ [][\A s \in Sessions :
            /\ (sel[s].processing # 0 /\ sel'[s].processing = 0)
                  => MarkedForProcess(s)
            /\ (sel[s].processing = 0 /\ sel'[s].processing # 0)
                  => apps'[s] = apps[s]
            /\ \A i \in DOMAIN apps[s] :
                  (i \in DOMAIN apps'[s] /\ apps'[s][i].id = apps[s][i].id
                   /\ ~apps[s][i].processed /\ apps'[s][i].processed)
                  => /\ sel[s].processing = apps[s][i].id
                     /\ sel'[s].processing = 0
                     /\ apps[s][i].complete
         ]_vars

\* A session that submitted an application, selected it with Process and
\* processed it: the record is processed and shown, the marker is gone.
C22_Witness ==
    \E s \in Sessions :
        /\ submitted >= 1
        /\ sel[s].processing = 0
        /\ Len(apps[s]) >= 1
        /\ apps[s][Len(apps[s])].name = "cat"
        /\ apps[s][Len(apps[s])].processed
        /\ sel[s].viewing = apps[s][Len(apps[s])].id


\* The applications file holds the record of this id as processed.
FileHasProcessed(file, id) ==
    \E j \in DOMAIN file.list : file.list[j].id = id /\ file.list[j].processed

\* C23 as stated: when a processing ends without its result in the
\* applications file (it failed: a successful one saves the processed
\* record), the session's list and the file are exactly as before the
\* attempt, and the marker is removed, so that the record can be processed
\* again.
C23_FailureLeavesRecord ==
    [][\A s \in Sessions :
          ( /\ sel[s].processing # 0
            /\ sel'[s].processing = 0
            /\ ~FileHasProcessed(dataFile', sel[s].processing) )
          => /\ apps'[s] = apps[s]
             /\ dataFile' = dataFile
      ]_vars

\* C24 as stated: when building the SQL workflow failed, no script run of that
\* session reaches the chat input with the agent missing, agent.run is never
\* called on a None agent (no turn is answered with the error text of that
\* call), and a session that starts later builds the workflow anew instead of
\* taking the failed result.
C24_FailedInitStops ==
    /\ [](\A s \in Sessions :
            /\ (st[s].agent = "None") => ~st[s].shown
            /\ \A i \in DOMAIN st[s].messages :
                  st[s].messages[i] # ErrorMsg(NoAgentErrorText))
    /\ [][\A s \in Sessions :
            (~st[s].started /\ st'[s].started /\ st'[s].agent = "None")
            => agentCache = "empty"
         ]_vars

\* C25: execute_sql makes the synthesis call only for a result text that was
\* counted and has at most 8000 tokens; a result of more than 8000 tokens is
\* answered with exactly the text 'Result too long. Please run this SQL
\* manually.' without a synthesis call; a result of exactly 8000 tokens goes to
\* the synthesis call, whose answer is the response when the call returns.
C25_SummaryUpTo8000Tokens ==
    \A s \in Sessions :
        /\ wf[s].llm => (wf[s].tokens # NotCounted /\ wf[s].tokens <= 8000)
        /\ wf[s].tokens > 8000
             => /\ wf[s].out = "Result too long. Please run this SQL manually."
                /\ ~wf[s].llm
        /\ (wf[s].tokens # NotCounted /\ wf[s].tokens <= 8000)
             => /\ wf[s].llm
                /\ wf[s].out # "Result too long. Please run this SQL manually."
                /\ (wf[s].err = "none" => wf[s].out = "summary")

C25_Witness ==
    /\ wf[1].stopBy = "execute_sql"
    /\ wf[1].tokens = 8000
    /\ wf[1].llm
    /\ wf[1].out = "summary"
    /\ wf[2].stopBy = "execute_sql"
    /\ wf[2].tokens = 8001
    /\ ~wf[2].llm
    /\ wf[2].out = "Result too long. Please run this SQL manually."

TableNames == {table_names[k] : k \in DOMAIN table_names}

RECURSIVE Concat(_)
Concat(parts) ==
    IF parts = <<>> THEN <<>> ELSE Head(parts) \o Concat(Tail(parts))

\* A table name that stands bare at lexeme i: no bracket right before it and
\* none right after it.
Bare(sql, i) ==
    /\ sql[i] \in TableNames
    /\ i > 1 => sql[i - 1] # "["
    /\ i < Len(sql) => sql[i + 1] # "]"

\* The text with every bare table name wrapped in square brackets.
WrapBare(sql) ==
    Concat([i \in DOMAIN sql |->
              IF Bare(sql, i) THEN <<"[", sql[i], "]">> ELSE <<sql[i]>>])

\* A bracketed table name `[T]` begins at lexeme i.
BracketedAt(sql, i) ==
    /\ i + 2 <= Len(sql)
    /\ sql[i] = "["
    /\ sql[i + 1] \in TableNames
    /\ sql[i + 2] = "]"

\* The text with the prefix `[Sales].` put before every `[T]`.
PrefixSales(sql) ==
    Concat([i \in DOMAIN sql |->
              IF BracketedAt(sql, i) THEN <<"[", "Sales", "]", ".", "[">> ELSE <<sql[i]>>])

\* C26: for every generated SQL text, with or without brackets and schema
\* prefixes, the SQL execute_sql runs is the generated SQL with every bare
\* occurrence of the three table names (a name with no bracket right before it
\* and none right after it) wrapped in square brackets and nothing else
\* changed, and the SQL of the reference is the executed SQL with `[Sales].`
\* put before every `[T]` of the three tables and nothing else changed.
C26_ReferenceIsExecutedPlusSchema ==
    \A s \in Sessions :
        wf[s].stopBy = "execute_sql"
        => /\ wf[s].executed = WrapBare(wf[s].sql)
           /\ wf[s].ref.sql_query = PrefixSales(wf[s].executed)

\* A run on `SalesLT.Customer`: the bare name after the schema prefix was
\* wrapped, and the reference holds `[Sales].` before the wrapped name.
C26_Witness ==
    /\ wf[1].stopBy = "execute_sql"
    /\ wf[1].sql = <<"SalesLT", ".", "Customer">>
    /\ wf[1].executed = <<"SalesLT", ".", "[", "Customer", "]">>
    /\ wf[1].ref.sql_query
         = <<"SalesLT", ".", "[", "Sales", "]", ".", "[", "Customer", "]">>
====
